---- MODULE Spec2Model ----
(***************************************************************************)
(* Model of src/esco_kg_streamlit.py: the course-ranking engine            *)
(* (calculate_skill_match, calculate_course_match_score,                   *)
(* get_course_recommendations_cached), the st.cache_data caches around it, *)
(* and the employee administration handlers of the Streamlit script.       *)
(*                                                                         *)
(* Python strings are sequences of one-character strings.  Python floats   *)
(* are modelled as exact rationals [num, den] in lowest terms; the scores  *)
(* of the vocabulary below are decided identically by IEEE doubles.        *)
(***************************************************************************)
EXTENDS Integers, Sequences, FiniteSets, TLC

\* ------------------------------------------------------------------ bounds
\* Longest missing-capability list get_missing_skills returns.
MaxMissing == 2
\* Most items in one content-source response.
MaxCourses == 2
\* Largest top_k passed to get_course_recommendations_cached.
MaxTopK == 3
\* Number of clock steps the cache model observes.
MaxTicks == 2
\* Seconds that pass in one clock step.
TickSeconds == 1800

\* ------------------------------------------------------- program constants
\* @st.cache_data(ttl=3600)
TTL == 3600
\* top_k=3 in the call of tab 3
UiTopK == 3

\* ------------------------------------------------------------- vocabulary
S_empty == << >>
S_ab == <<"a", "b">>
S_Ab == <<"A", "b">>
S_c == <<"c">>
S_Abc == <<"A", "b", "c">>

NoneStr == "None"

\* ------------------------------------------------------------ str.lower()
LowerChar(ch) ==
  CASE ch = "A" -> "a"
    [] ch = "B" -> "b"
    [] ch = "C" -> "c"
    [] ch = "D" -> "d"
    [] OTHER -> ch

Lower(s) == [i \in 1..Len(s) |-> LowerChar(s[i])]

\* --------------------------------------------------------------- rationals
RECURSIVE Gcd(_, _)
Gcd(x, y) == IF y = 0 THEN x ELSE Gcd(y, x % y)

Rat(n, d) ==
  LET g == Gcd(n, d) IN
  IF n = 0 THEN [num |-> 0, den |-> 1] ELSE [num |-> n \div g, den |-> d \div g]

RatAdd(p, q) == Rat(p.num * q.den + q.num * p.den, p.den * q.den)
RatMul(p, q) == Rat(p.num * q.num, p.den * q.den)
RatGT(p, q) == p.num * q.den > q.num * p.den
RatGE(p, q) == ~RatGT(q, p)
RatZero == Rat(0, 1)

\* ------------------------------------- difflib.SequenceMatcher(...).ratio()
Min(x, y) == IF x < y THEN x ELSE y

\* find_longest_match: the longest common block; of those the one starting
\* earliest in a; of those the one starting earliest in b.
MatchingBlocks(a, b) ==
  { blk \in (1..Len(a)) \X (1..Len(b)) \X (1..Min(Len(a), Len(b))) :
      /\ blk[1] + blk[3] - 1 <= Len(a)
      /\ blk[2] + blk[3] - 1 <= Len(b)
      /\ SubSeq(a, blk[1], blk[1] + blk[3] - 1) = SubSeq(b, blk[2], blk[2] + blk[3] - 1) }

find_longest_match(a, b) ==
  LET blocks == MatchingBlocks(a, b) IN
  CHOOSE blk \in blocks :
    \A other \in blocks :
      \/ other[3] < blk[3]
      \/ other[3] = blk[3] /\ other[1] > blk[1]
      \/ other[3] = blk[3] /\ other[1] = blk[1] /\ other[2] >= blk[2]

\* get_matching_blocks: total size of the blocks found by recursing to the
\* left and to the right of the longest match.
RECURSIVE MatchedChars(_, _)
MatchedChars(a, b) ==
  IF MatchingBlocks(a, b) = {} THEN 0
  ELSE LET blk == find_longest_match(a, b)
           i == blk[1]
           j == blk[2]
           k == blk[3]
       IN k + MatchedChars(SubSeq(a, 1, i - 1), SubSeq(b, 1, j - 1))
            + MatchedChars(SubSeq(a, i + k, Len(a)), SubSeq(b, j + k, Len(b)))

\* ratio(): 2.0 * matches / length, and 1.0 when both strings are empty.
Ratio(a, b) ==
  IF Len(a) + Len(b) = 0 THEN Rat(1, 1)
  ELSE Rat(2 * MatchedChars(a, b), Len(a) + Len(b))

calculate_skill_match(skill1, skill2) == Ratio(Lower(skill1), Lower(skill2))

\* ------------------------------------------ calculate_course_match_score
NameWeight == Rat(7, 10)
DescWeight == Rat(3, 10)
MatchThreshold == Rat(3, 10)

\* element.get('name', '').lower() and element.get('description', '').lower()
ElementName(element) == Lower(element.name)
ElementDescription(element) ==
  IF element.has_description THEN Lower(element.description) ELSE S_empty

\* ------------------------------------------------------------ data pools
\* MissingCapability dicts as _kg.get_missing_skills returns them; a dict may
\* lack 'experience_level'.
Skill(label, level, has_exp, exp) ==
  [skill_label |-> label, occupation_skill_level |-> level,
   has_experience_level |-> has_exp, experience_level |-> exp]

SkillPool ==
  { Skill(S_ab, "essential", FALSE, NoneStr),
    Skill(S_ab, "optional", TRUE, "Advanced"),
    Skill(S_c, "optional", FALSE, NoneStr) }

SkillLabels == { sk.skill_label : sk \in SkillPool }

\* CandidateItem dicts of a content-source response; 'description' is optional.
Course(name, has_desc, desc) ==
  [name |-> name, has_description |-> has_desc, description |-> desc]

CoursePool ==
  { Course(S_c, TRUE, S_Ab),
    Course(S_Abc, FALSE, S_empty) }

\* skill_score = (name_match * 0.7) + (desc_match * 0.3)
weighted_match(skill, element) ==
  LET skill_label == Lower(skill.skill_label) IN
  RatAdd(RatMul(calculate_skill_match(skill_label, ElementName(element)), NameWeight),
         RatMul(calculate_skill_match(skill_label, ElementDescription(element)), DescWeight))

\* The scores of the pools, computed once.
ScoreTable == [sk \in SkillPool, el \in CoursePool |-> weighted_match(sk, el)]

skill_score(skill, element) == ScoreTable[skill, element]

\* Variant: the threshold compared with >= instead of >.
IsMatch_AtLeast(score) == RatGE(score, MatchThreshold)

IsMatch(score) == RatGT(score, MatchThreshold)

\* Variant: 'essential' is not weighted more than the other levels.
LevelWeight_Flat(skill) == 1

LevelWeight(skill) == IF skill.occupation_skill_level = "essential" THEN 2 ELSE 1

\* One pass of the inner loop "for skill in missing_skills".
RECURSIVE ScoreSkills(_, _, _, _)
ScoreSkills(element, missing_skills, i, acc) ==
  IF i > Len(missing_skills) THEN acc
  ELSE LET skill == missing_skills[i]
           sc == skill_score(skill, element)
       IN IF IsMatch(sc)
          THEN ScoreSkills(element, missing_skills, i + 1,
                 [total_score |-> RatAdd(acc.total_score, RatMul(sc, Rat(LevelWeight(skill), 1))),
                  matched_skills |-> Append(acc.matched_skills,
                     [skill |-> Lower(skill.skill_label),
                      score |-> sc,
                      level |-> skill.occupation_skill_level])])
          ELSE ScoreSkills(element, missing_skills, i + 1, acc)

\* The outer loop "for element in course['elements']".
RECURSIVE ScoreElements(_, _, _, _)
ScoreElements(elements, missing_skills, e, acc) ==
  IF e > Len(elements) THEN acc
  ELSE ScoreElements(elements, missing_skills, e + 1,
                     ScoreSkills(elements[e], missing_skills, 1, acc))

\* course is {'elements': elements}; the aggregator never passes a falsy
\* course or one without 'elements', so the "return 0" branch is not taken.
calculate_course_match_score(elements, missing_skills) ==
  ScoreElements(elements, missing_skills, 1,
                [total_score |-> RatZero, matched_skills |-> << >>])

SeqsUpTo(S, n) == UNION { [1..m -> S] : m \in 0..n }

\* What get_coursera_courses returns: None after a failed request, else the
\* decoded JSON, a dict with or without 'elements'.
Response(is_none, has_elements, elements) ==
  [is_none |-> is_none, has_elements |-> has_elements, elements |-> elements]

ResponseNone == Response(TRUE, FALSE, << >>)
ResponseNoElements == Response(FALSE, FALSE, << >>)

Responses ==
  {ResponseNone, ResponseNoElements}
    \cup { Response(FALSE, TRUE, es) : es \in SeqsUpTo(CoursePool, MaxCourses) }

\* What _kg.get_missing_skills does: raise, or return a list of skills.
MissingResult(raises, skills) == [raises |-> raises, skills |-> skills]

MissingResults ==
  {MissingResult(TRUE, << >>)}
    \cup { MissingResult(FALSE, ms) : ms \in SeqsUpTo(SkillPool, MaxMissing) }

TopKs == (-1)..MaxTopK

\* ----------------------------------------------------------- st.cache_data
\* An entry of a cache with a ttl is served while now - t < ttl.
Expired(entry, clock) == clock - entry.t >= TTL

EmptyMap == << >>

EmptyCache ==
  [emp_list |-> [present |-> FALSE, value |-> << >>],
   missing |-> EmptyMap,
   courses |-> EmptyMap,
   recs |-> EmptyMap]

\* Variant: only the recommendation cache is emptied.
cache_data_clear_RecsOnly(c) == [c EXCEPT !.recs = EmptyMap]

\* st.cache_data.clear() empties every st.cache_data cache.
cache_data_clear(c) == EmptyCache

Put(map, key, entry) == [k \in DOMAIN map \cup {key} |-> IF k = key THEN entry ELSE map[k]]

\* get_coursera_courses(skill): the cached value, else one request to the
\* content source whose outcome (None included) is cached under the label.
get_coursera_courses(courses_cache, clock, src, label) ==
  IF label \in DOMAIN courses_cache /\ ~Expired(courses_cache[label], clock)
  THEN [value |-> courses_cache[label].value, courses |-> courses_cache, fetched |-> FALSE]
  ELSE [value |-> src[label],
        courses |-> Put(courses_cache, label, [value |-> src[label], t |-> clock]),
        fetched |-> TRUE]

\* -------------------------------------- get_course_recommendations_cached
\* "if courses and 'elements' in courses": None and {} are falsy.
HasElements(courses) == ~courses.is_none /\ courses.has_elements

SuitableFor(skill) ==
  IF skill.has_experience_level THEN skill.experience_level ELSE "Beginner"

\* Variant: an item that is already a candidate is not added again.
AddScored_Dedup(acc, entry) ==
  [acc EXCEPT !.scored = Append(@, entry),
              !.all_courses =
                 IF /\ RatGT(entry.match_score.total_score, RatZero)
                    /\ \A p \in 1..Len(acc.all_courses) :
                         acc.all_courses[p].course # entry.course
                 THEN Append(@, entry) ELSE @]

\* "if match_score['total_score'] > 0: all_courses.append({...})"; scored
\* also keeps the entries that are dropped here.
AddScored(acc, entry) ==
  [acc EXCEPT !.scored = Append(@, entry),
              !.all_courses = IF RatGT(entry.match_score.total_score, RatZero)
                              THEN Append(@, entry) ELSE @]

\* The loop "for course in courses['elements']" for one missing skill.
RECURSIVE ScoreCourses(_, _, _, _, _)
ScoreCourses(elements, skill, missing_skills, j, acc) ==
  IF j > Len(elements) THEN acc
  ELSE ScoreCourses(elements, skill, missing_skills, j + 1,
         AddScored(acc,
           [course |-> elements[j],
            match_score |-> calculate_course_match_score(<<elements[j]>>, missing_skills),
            target_skill_level |-> skill.occupation_skill_level,
            suitable_for_experience |-> SuitableFor(skill)]))

\* One iteration of "for skill in missing_skills", given what
\* get_coursera_courses returned for the skill's label.
ScoreFetched(acc, skill, missing_skills, got) ==
  IF HasElements(got.value)
  THEN ScoreCourses(got.value.elements, skill, missing_skills, 1,
         [acc EXCEPT !.courses = got.courses,
                     !.fetched = IF got.fetched THEN @ \cup {skill.skill_label} ELSE @])
  ELSE [acc EXCEPT !.courses = got.courses,
                   !.fetched = IF got.fetched THEN @ \cup {skill.skill_label} ELSE @]

\* Variant: the loop ends at the first fetch that failed.
RECURSIVE FetchAndScore_Break(_, _, _, _, _)
FetchAndScore_Break(missing_skills, i, clock, src, acc) ==
  IF i > Len(missing_skills) THEN acc
  ELSE IF get_coursera_courses(acc.courses, clock, src, missing_skills[i].skill_label).value.is_none
  THEN ScoreFetched(acc, missing_skills[i], missing_skills,
         get_coursera_courses(acc.courses, clock, src, missing_skills[i].skill_label))
  ELSE FetchAndScore_Break(missing_skills, i + 1, clock, src,
         ScoreFetched(acc, missing_skills[i], missing_skills,
           get_coursera_courses(acc.courses, clock, src, missing_skills[i].skill_label)))

\* The loop "for skill in missing_skills".
RECURSIVE FetchAndScore(_, _, _, _, _)
FetchAndScore(missing_skills, i, clock, src, acc) ==
  IF i > Len(missing_skills) THEN acc
  ELSE FetchAndScore(missing_skills, i + 1, clock, src,
         ScoreFetched(acc, missing_skills[i], missing_skills,
           get_coursera_courses(acc.courses, clock, src, missing_skills[i].skill_label)))

\* Variant: an entry goes in front of the entries of its own score, as after
\* an ascending sort followed by reverse().
RECURSIVE InsertDescending_BeforeTies(_, _, _)
InsertDescending_BeforeTies(sorted, entry, p) ==
  IF p > Len(sorted)
       \/ RatGE(entry.match_score.total_score, sorted[p].match_score.total_score)
  THEN SubSeq(sorted, 1, p - 1) \o <<entry>> \o SubSeq(sorted, p, Len(sorted))
  ELSE InsertDescending_BeforeTies(sorted, entry, p + 1)

\* list.sort(key=..., reverse=True) is stable: an entry goes behind every
\* entry whose key is greater than or equal to its own.
RECURSIVE InsertDescending(_, _, _)
InsertDescending(sorted, entry, p) ==
  IF p > Len(sorted)
       \/ RatGT(entry.match_score.total_score, sorted[p].match_score.total_score)
  THEN SubSeq(sorted, 1, p - 1) \o <<entry>> \o SubSeq(sorted, p, Len(sorted))
  ELSE InsertDescending(sorted, entry, p + 1)

RECURSIVE SortDescending(_, _, _)
SortDescending(list, i, sorted) ==
  IF i > Len(list) THEN sorted
  ELSE SortDescending(list, i + 1, InsertDescending(sorted, list[i], 1))

sort_by_match_score(list) == SortDescending(list, 1, << >>)

Max(x, y) == IF x > y THEN x ELSE y

\* Variant: the slice keeps one entry too many.
SliceTo_OffByOne(list, top_k) ==
  IF top_k >= 0 THEN SubSeq(list, 1, Min(top_k + 1, Len(list)))
  ELSE SubSeq(list, 1, Max(0, Len(list) + top_k + 1))

\* list[:top_k] with Python's slice rules: a negative top_k counts from the end.
SliceTo(list, top_k) ==
  IF top_k >= 0 THEN SubSeq(list, 1, Min(top_k, Len(list)))
  ELSE SubSeq(list, 1, Max(0, Len(list) + top_k))

\* "all_courses.sort(...); return all_courses[:top_k]"
SortAndSlice(got, top_k) ==
  [raised |-> FALSE,
   result |-> SliceTo(sort_by_match_score(got.all_courses), top_k),
   all_courses |-> got.all_courses,
   scored |-> got.scored,
   fetched |-> got.fetched,
   courses |-> got.courses]

\* Variant: the content source is asked for a default query before the
\* missing skills are looked at.
recommendations_body_FetchFirst(courses_cache, clock, missing, src, top_k) ==
  IF missing.raises
  THEN [raised |-> TRUE, result |-> << >>, all_courses |-> << >>, scored |-> << >>,
        fetched |-> {}, courses |-> courses_cache]
  ELSE IF missing.skills = << >>
  THEN [raised |-> FALSE, result |-> << >>, all_courses |-> << >>, scored |-> << >>,
        fetched |-> IF get_coursera_courses(courses_cache, clock, src, S_c).fetched
                    THEN {S_c} ELSE {},
        courses |-> get_coursera_courses(courses_cache, clock, src, S_c).courses]
  ELSE SortAndSlice(FetchAndScore(missing.skills, 1, clock, src,
                      [courses |-> courses_cache, fetched |-> {},
                       scored |-> << >>, all_courses |-> << >>]),
                    top_k)

\* The body of get_course_recommendations_cached.
recommendations_body(courses_cache, clock, missing, src, top_k) ==
  IF missing.raises
  THEN [raised |-> TRUE, result |-> << >>, all_courses |-> << >>, scored |-> << >>,
        fetched |-> {}, courses |-> courses_cache]
  ELSE IF missing.skills = << >>
  THEN [raised |-> FALSE, result |-> << >>, all_courses |-> << >>, scored |-> << >>,
        fetched |-> {}, courses |-> courses_cache]
  ELSE SortAndSlice(FetchAndScore(missing.skills, 1, clock, src,
                      [courses |-> courses_cache, fetched |-> {},
                       scored |-> << >>, all_courses |-> << >>]),
                    top_k)

\* The cache key of get_course_recommendations_cached: _kg is not hashed.
RecKey(employee_id, target_occupation, top_k) == <<employee_id, target_occupation, top_k>>

\* _kg.get_missing_skills(employee_id, target_occupation)
get_missing_skills(tax, employee_id, target_occupation) ==
  tax[<<employee_id, target_occupation>>]

\* What a call that ran the body leaves behind: the return value is stored
\* under the key; an exception leaves no entry.
AfterBody(c, key, clock, missing, body) ==
  [cache |-> IF body.raised
             THEN [c EXCEPT !.courses = body.courses]
             ELSE [c EXCEPT !.courses = body.courses,
                            !.recs = Put(@, key, [value |-> body.result, t |-> clock])],
   hit |-> FALSE, raised |-> body.raised, result |-> body.result,
   all_courses |-> body.all_courses, scored |-> body.scored,
   fetched |-> body.fetched, missing |-> missing]

MissThenBody(c, key, clock, missing, src, top_k) ==
  AfterBody(c, key, clock, missing,
            recommendations_body(c.courses, clock, missing, src, top_k))

\* One call of the decorated function: a cached entry younger than the ttl
\* is returned as is; otherwise the body runs.
get_course_recommendations_cached(c, clock, tax, src, employee_id, target_occupation, top_k) ==
  LET key == RecKey(employee_id, target_occupation, top_k) IN
  IF key \in DOMAIN c.recs /\ ~Expired(c.recs[key], clock)
  THEN [cache |-> c, hit |-> TRUE, raised |-> FALSE, result |-> c.recs[key].value,
        all_courses |-> << >>, scored |-> << >>, fetched |-> {},
        missing |-> MissingResult(FALSE, << >>)]
  ELSE MissThenBody(c, key, clock,
                    get_missing_skills(tax, employee_id, target_occupation), src, top_k)

\* ------------------------------------------------------------------- state
VARIABLES
  employees,   \* kg.employees['employee_id'], in row order
  issued,      \* the ids uuid4 has produced so far
  session,     \* st.session_state of every browser session
  cache,       \* the st.cache_data caches, shared by all sessions
  now,         \* the clock the ttl is measured against, in seconds
  taxonomy,    \* what _kg.get_missing_skills answers per (employee, occupation)
  source,      \* what the content source answers per query
  last,        \* the latest call of get_course_recommendations_cached
  history,     \* what has been returned and fetched since the latest clear
  audit        \* what the administration handlers and the profile tab did

vars == <<employees, issued, session, cache, now, taxonomy, source, last, history, audit>>

EmployeeIdPool == {"EMP1", "EMP2", "EMP3"}
Occupations == {"occ1"}
Sessions == {"s1", "s2"}

NoCall ==
  [called |-> FALSE, key |-> RecKey(NoneStr, NoneStr, 0), at |-> 0,
   hit |-> FALSE, raised |-> FALSE, result |-> << >>, all_courses |-> << >>,
   scored |-> << >>, fetched |-> {}, missing |-> MissingResult(FALSE, << >>),
   prior_valid |-> FALSE, prior_value |-> << >>, prior_at |-> 0,
   after_invalidation |-> FALSE, fetched_since_clear |-> {}]

\* history.returned: per key, the value and time of the latest call whose body
\* ran and returned since the latest clear.  history.invalidated: the keys whose
\* result a clear has dropped and that were not called since.
\* history.fetched_since_clear: the queries requested from the content source
\* since the latest clear.
\* history.recomputed: the keys whose first call after a clear ran the body.
NoHistory ==
  [returned |-> EmptyMap, invalidated |-> {}, fetched_since_clear |-> {}, recomputed |-> {}]

HistoryAfterCall(h, key, out, clock) ==
  [returned |-> IF ~out.hit /\ ~out.raised
                THEN Put(h.returned, key, [value |-> out.result, t |-> clock])
                ELSE h.returned,
   invalidated |-> h.invalidated \ {key},
   fetched_since_clear |-> h.fetched_since_clear \cup out.fetched,
   recomputed |-> IF key \in h.invalidated /\ ~out.hit
                  THEN h.recomputed \cup {key} ELSE h.recomputed]

HistoryAfterClear(h) ==
  [returned |-> EmptyMap,
   invalidated |-> h.invalidated \cup DOMAIN h.returned,
   fetched_since_clear |-> {},
   recomputed |-> h.recomputed]

CallRecord(h, key, out, clock) ==
  [called |-> TRUE, key |-> key, at |-> clock,
   hit |-> out.hit, raised |-> out.raised, result |-> out.result,
   all_courses |-> out.all_courses, scored |-> out.scored,
   fetched |-> out.fetched, missing |-> out.missing,
   prior_valid |-> key \in DOMAIN h.returned /\ clock - h.returned[key].t < TTL,
   prior_value |-> IF key \in DOMAIN h.returned THEN h.returned[key].value ELSE << >>,
   prior_at |-> IF key \in DOMAIN h.returned THEN h.returned[key].t ELSE 0,
   after_invalidation |-> key \in h.invalidated,
   fetched_since_clear |-> h.fetched_since_clear \cup out.fetched]

NoAudit == [dirty |-> FALSE, stale_read |-> FALSE, profile_lookup |-> "none"]

NoSession == [selected_employee |-> NoneStr, selected_occ |-> NoneStr]

\* ----------------------------------------------------------------- actions
\* A caller invokes get_course_recommendations_cached(kg, e, o, top_k).
CallRecommendations(employee_id, target_occupation, top_k) ==
  LET key == RecKey(employee_id, target_occupation, top_k) IN
  /\ <<employee_id, target_occupation>> \in DOMAIN taxonomy
  /\ \E out \in {get_course_recommendations_cached(cache, now, taxonomy, source,
                       employee_id, target_occupation, top_k)} :
     /\ cache' = out.cache
     /\ last' = CallRecord(history, key, out, now)
     /\ history' = HistoryAfterCall(history, key, out, now)
     /\ UNCHANGED <<employees, issued, session, now, taxonomy, source, audit>>

\* The first call of a fresh process.
FirstCall(top_k) ==
  /\ ~last.called
  /\ CallRecommendations("EMP1", "occ1", top_k)

\* ------------------------------------------------- the ranking, call by call
RankInit ==
  /\ employees = <<"EMP1">>
  /\ issued = {"EMP1"}
  /\ session = [s \in Sessions |-> NoSession]
  /\ cache = EmptyCache
  /\ now = 0
  /\ taxonomy \in [{<<"EMP1", "occ1">>} -> MissingResults]
  /\ source \in [SkillLabels -> Responses]
  /\ last = NoCall
  /\ history = NoHistory
  /\ audit = NoAudit

RankNext == \E top_k \in TopKs : FirstCall(top_k)

SpecRank == RankInit /\ [][RankNext]_vars

\* ------------------------------------------- the caches over several calls
\* Time passes.
Tick ==
  /\ now < MaxTicks * TickSeconds
  /\ now' = now + TickSeconds
  /\ UNCHANGED <<employees, issued, session, cache, taxonomy, source, last, history, audit>>

\* st.cache_data.clear(), as the add and delete handlers call it.
InvalidateCaches ==
  /\ cache # EmptyCache
  /\ cache' = cache_data_clear(cache)
  /\ history' = HistoryAfterClear(history)
  /\ UNCHANGED <<employees, issued, session, now, taxonomy, source, last, audit>>

\* The content source answers differently from now on.
CacheSources ==
  { (S_ab :> Response(FALSE, TRUE, <<Course(S_Abc, FALSE, S_empty)>>))
      @@ (S_c :> Response(FALSE, TRUE, <<Course(S_c, TRUE, S_Ab)>>)),
    (S_ab :> Response(FALSE, TRUE, <<Course(S_c, TRUE, S_Ab), Course(S_Abc, FALSE, S_empty)>>))
      @@ (S_c :> ResponseNone) }

SourceChange ==
  /\ \E src \in CacheSources :
       /\ src # source
       /\ source' = src
  /\ UNCHANGED <<employees, issued, session, cache, now, taxonomy, last, history, audit>>

CacheTaxonomies ==
  { (<<"EMP1", "occ1">> :> MissingResult(FALSE, <<Skill(S_ab, "essential", FALSE, NoneStr)>>))
      @@ (<<"EMP2", "occ1">> :> MissingResult(FALSE, <<Skill(S_ab, "optional", TRUE, "Advanced"),
                                                       Skill(S_c, "optional", FALSE, NoneStr)>>)),
    (<<"EMP1", "occ1">> :> MissingResult(FALSE, << >>))
      @@ (<<"EMP2", "occ1">> :> MissingResult(TRUE, << >>)) }

\* The calls the callers make: tab 3's for two employees, and one with another
\* top_k.
CacheCalls == {<<"EMP1", "occ1", UiTopK>>, <<"EMP2", "occ1", UiTopK>>, <<"EMP1", "occ1", 1>>}

CacheInit ==
  /\ employees = <<"EMP1", "EMP2">>
  /\ issued = {"EMP1", "EMP2"}
  /\ session = [s \in Sessions |-> NoSession]
  /\ cache = EmptyCache
  /\ now = 0
  /\ taxonomy \in CacheTaxonomies
  /\ source \in CacheSources
  /\ last = NoCall
  /\ history = NoHistory
  /\ audit = NoAudit

CacheNext ==
  \/ \E call \in CacheCalls : CallRecommendations(call[1], call[2], call[3])
  \/ Tick
  \/ InvalidateCaches
  \/ SourceChange

SpecCache == CacheInit /\ [][CacheNext]_vars

\* ------------------------------------------------- one run of the script
\* Streamlit runs the whole script, top to bottom, for one session on every
\* interaction.  A run is modelled as one step; w is the state the run works
\* on: what it shares with the other sessions (employees, issued, cache), its
\* own st.session_state (sess), its local employee_ids, and whether an uncaught
\* exception has ended it.
IdsOf(list) == {list[i] : i \in 1..Len(list)}

\* A call of one of the cached readers of person data is noted when it
\* happens after kg.employees changed and before the caches were cleared.
NoteCachedRead(a) == [a EXCEPT !.stale_read = @ \/ a.dirty]

StartRun(s) ==
  [employees |-> employees, issued |-> issued, cache |-> cache, sess |-> session[s],
   audit |-> [audit EXCEPT !.profile_lookup = "none"], history |-> history, last |-> last,
   employee_ids |-> << >>, aborted |-> FALSE]

\* get_employee_list(kg): cached without a ttl; _kg is not part of the key.
get_employee_list(w) ==
  IF w.cache.emp_list.present
  THEN [w EXCEPT !.employee_ids = w.cache.emp_list.value,
                 !.audit = NoteCachedRead(@)]
  ELSE [w EXCEPT !.employee_ids = w.employees,
                 !.cache.emp_list = [present |-> TRUE, value |-> w.employees],
                 !.audit = NoteCachedRead(@)]

\* st.cache_data.clear() inside a handler.
ClearInRun(w) ==
  [w EXCEPT !.cache = cache_data_clear(@),
            !.history = HistoryAfterClear(@),
            !.audit.dirty = FALSE]

\* st.selectbox(..., employee_ids, format_func=...) calls format_func on every
\* option; the lambda's .iloc[0] raises for an id that is not in kg.employees.
SelectboxRaises(w) == ~(IdsOf(w.employee_ids) \subseteq IdsOf(w.employees))

\* "Bestehenden Mitarbeiter auswaehlen": choice is the option the user picked,
\* None when there are no options.
TabSelect(w, choice) ==
  IF SelectboxRaises(w) THEN [w EXCEPT !.aborted = TRUE]
  ELSE [w EXCEPT !.sess.selected_employee = choice,
                 !.aborted = choice \notin IdsOf(w.employees)]

\* save_new_employee: kg.employees gets the new row, then to_csv may raise.
save_new_employee(w, employee_id) ==
  [w EXCEPT !.employees = Append(@, employee_id),
            !.issued = @ \cup {employee_id},
            !.audit.dirty = TRUE]

\* "Neuen Mitarbeiter hinzufuegen" with the button pressed and the fields
\* filled in.
TabAdd(w, employee_id, csv_fails) ==
  IF csv_fails
  THEN save_new_employee(w, employee_id)
  ELSE [get_employee_list(ClearInRun(save_new_employee(w, employee_id)))
          EXCEPT !.sess.selected_employee = employee_id]

\* delete_employee: kg.employees loses the row, then to_csv may raise; only
\* after that the session state is looked at.
RemoveRow(w, employee_id) ==
  [w EXCEPT !.employees = SelectSeq(@, LAMBDA id : id # employee_id),
            !.audit.dirty = TRUE]

delete_employee(w, employee_id) ==
  IF w.sess.selected_employee = employee_id
  THEN [w EXCEPT !.sess = NoSession]
  ELSE w

\* "Mitarbeiter loeschen": the selectbox, then the button's try block.
TabDelete(w, employee_to_delete, pressed, csv_fails) ==
  IF SelectboxRaises(w) THEN [w EXCEPT !.aborted = TRUE]
  ELSE IF ~pressed THEN w
  ELSE IF employee_to_delete \notin IdsOf(w.employees) THEN w
  ELSE IF csv_fails THEN RemoveRow(w, employee_to_delete)
  ELSE get_employee_list(ClearInRun(
         delete_employee(RemoveRow(w, employee_to_delete), employee_to_delete)))

\* get_missing_skills_cached: cached without a ttl; an exception is not cached.
get_missing_skills_cached(w, employee_id, target_occupation) ==
  LET key == <<employee_id, target_occupation>> IN
  IF key \in DOMAIN w.cache.missing
  THEN [w EXCEPT !.audit = NoteCachedRead(@)]
  ELSE IF get_missing_skills(taxonomy, employee_id, target_occupation).raises
  THEN [w EXCEPT !.audit = NoteCachedRead(@), !.aborted = TRUE]
  ELSE [w EXCEPT !.audit = NoteCachedRead(@),
                 !.cache.missing =
                    Put(@, key, get_missing_skills(taxonomy, employee_id, target_occupation))]

\* Tab 2: the row lookup of the selected employee, the occupation selectbox,
\* the missing skills.
TabProfile(w, selected_occ) ==
  IF w.aborted \/ w.sess.selected_employee = NoneStr THEN w
  ELSE IF w.sess.selected_employee \notin IdsOf(w.employees)
  THEN [w EXCEPT !.audit.profile_lookup = "empty", !.aborted = TRUE]
  ELSE get_missing_skills_cached(
         [w EXCEPT !.audit.profile_lookup = "found", !.sess.selected_occ = selected_occ],
         w.sess.selected_employee, selected_occ)

\* Tab 3: the recommendations for the selection, with top_k=3.
AfterRecommendations(w, key, out) ==
  [w EXCEPT !.cache = out.cache,
            !.last = CallRecord(w.history, key, out, now),
            !.history = HistoryAfterCall(@, key, out, now),
            !.audit = NoteCachedRead(@),
            !.aborted = out.raised]

TabCourses(w) ==
  IF w.aborted \/ w.sess.selected_employee = NoneStr \/ w.sess.selected_occ = NoneStr
  THEN w
  ELSE AfterRecommendations(w,
         RecKey(w.sess.selected_employee, w.sess.selected_occ, UiTopK),
         get_course_recommendations_cached(w.cache, now, taxonomy, source,
           w.sess.selected_employee, w.sess.selected_occ, UiTopK))

\* What a run leaves behind.
EndRun(s, w) ==
  /\ employees' = w.employees
  /\ issued' = w.issued
  /\ cache' = w.cache
  /\ session' = [session EXCEPT ![s] = w.sess]
  /\ audit' = w.audit
  /\ history' = w.history
  /\ last' = w.last
  /\ UNCHANGED <<now, taxonomy, source>>

\* The options of a selectbox over employee_ids: one of them, None without any.
Choices(list) == IF list = << >> THEN {NoneStr} ELSE IdsOf(list)

\* A run with the radio on "Bestehenden Mitarbeiter auswaehlen".
RunSelect(s) ==
  \E w0 \in {get_employee_list(StartRun(s))} :
    \E choice \in Choices(w0.employee_ids) : \E selected_occ \in Occupations :
      \E w \in {TabCourses(TabProfile(TabSelect(w0, choice), selected_occ))} :
        EndRun(s, w)

\* A run with the radio on "Neuen Mitarbeiter hinzufuegen" and the button
\* pressed with name and skills filled in; uuid4 gives an id not seen before.
RunAdd(s) ==
  \E w0 \in {get_employee_list(StartRun(s))} :
    \E employee_id \in EmployeeIdPool \ issued : \E csv_fails \in BOOLEAN :
      \E selected_occ \in Occupations :
        \E w \in {TabCourses(TabProfile(TabAdd(w0, employee_id, csv_fails), selected_occ))} :
          EndRun(s, w)

\* A run with the radio on "Mitarbeiter loeschen", with or without the button.
RunDelete(s) ==
  \E w0 \in {get_employee_list(StartRun(s))} :
    \E employee_to_delete \in Choices(w0.employee_ids) :
      \E pressed \in BOOLEAN : \E csv_fails \in BOOLEAN : \E selected_occ \in Occupations :
        \E w \in {TabCourses(TabProfile(
                    TabDelete(w0, employee_to_delete, pressed, csv_fails), selected_occ))} :
          EndRun(s, w)

UiTaxonomies ==
  { [key \in EmployeeIdPool \X Occupations |->
       MissingResult(FALSE, <<Skill(S_ab, "essential", FALSE, NoneStr)>>)],
    [key \in EmployeeIdPool \X Occupations |-> MissingResult(FALSE, << >>)],
    [key \in EmployeeIdPool \X Occupations |-> MissingResult(TRUE, << >>)] }

\* The clock stands still in this specification: the ttl only shortens the
\* life of cache entries, and the administration handlers do not read it.
UiInit ==
  /\ employees = <<"EMP1">>
  /\ issued = {"EMP1"}
  /\ session = [s \in Sessions |-> NoSession]
  /\ cache = EmptyCache
  /\ now = 0
  /\ taxonomy \in UiTaxonomies
  /\ source \in CacheSources
  /\ last = NoCall
  /\ history = NoHistory
  /\ audit = NoAudit

UiNext ==
  \/ \E s \in Sessions : RunSelect(s)
  \/ \E s \in Sessions : RunAdd(s)
  \/ \E s \in Sessions : RunDelete(s)

SpecUi == UiInit /\ [][UiNext]_vars

\* ------------------------------------------------ vocabulary of the claims
TotalOf(entry) == entry.match_score.total_score

\* The inputs of the latest call.
LastTopK == last.key[3]
LastMissing == taxonomy[<<last.key[1], last.key[2]>>]
Returned == last.called /\ ~last.raised

\* A response that has items to look at.
Usable(resp) == ~resp.is_none /\ resp.has_elements

\* 0.7 * name_score + 0.3 * desc_score of one (capability, item) pair.
\* Tabulated once over the pools.
CombinedTable ==
  [skill \in SkillPool, course \in CoursePool |->
     RatAdd(RatMul(Rat(7, 10), Ratio(Lower(skill.skill_label), Lower(course.name))),
            RatMul(Rat(3, 10), Ratio(Lower(skill.skill_label),
                                     IF course.has_description THEN Lower(course.description)
                                     ELSE << >>)))]

Combined(skill, course) == CombinedTable[skill, course]

Exceeds(skill, course) == RatGT(Combined(skill, course), Rat(3, 10))

\* The sum over the capabilities above the threshold of combined * weight.
RECURSIVE WeightedSumFrom(_, _, _)
WeightedSumFrom(course, skills, i) ==
  IF i > Len(skills) THEN Rat(0, 1)
  ELSE RatAdd(IF Exceeds(skills[i], course)
              THEN RatMul(Combined(skills[i], course),
                          Rat(IF skills[i].occupation_skill_level = "essential" THEN 2 ELSE 1, 1))
              ELSE Rat(0, 1),
              WeightedSumFrom(course, skills, i + 1))

\* Tabulated once over the pools.
WeightedSumTable ==
  [course \in CoursePool, skills \in SeqsUpTo(SkillPool, MaxMissing) |->
     WeightedSumFrom(course, skills, 1)]

WeightedSum(course, skills) == WeightedSumTable[course, skills]

\* The score of one item against a whole list, tabulated once over the pools.
MatchScoreTable ==
  [course \in CoursePool, skills \in SeqsUpTo(SkillPool, MaxMissing) |->
     calculate_course_match_score(<<course>>, skills)]

\* The candidates in first-seen order: by missing capability, then in the order
\* of the content source's answer, each scored against the whole list.
CandidateOf(skills, i, course) ==
  [course |-> course,
   match_score |-> MatchScoreTable[course, skills],
   target_skill_level |-> skills[i].occupation_skill_level,
   suitable_for_experience |->
     IF skills[i].has_experience_level THEN skills[i].experience_level ELSE "Beginner"]

RECURSIVE FirstSeenFrom(_, _, _)
FirstSeenFrom(skills, src, i) ==
  IF i > Len(skills) THEN << >>
  ELSE LET resp == src[skills[i].skill_label]
           mine == IF Usable(resp)
                   THEN [j \in 1..Len(resp.elements) |-> CandidateOf(skills, i, resp.elements[j])]
                   ELSE << >>
       IN SelectSeq(mine, LAMBDA en : RatGT(TotalOf(en), Rat(0, 1)))
            \o FirstSeenFrom(skills, src, i + 1)

FirstSeen == FirstSeenFrom(LastMissing.skills, source, 1)

\* Descending order that keeps entries of equal score in their given order:
\* the entries of the greatest score as they stand, then the rest likewise.
RECURSIVE TiesInOrder(_)
TiesInOrder(list) ==
  IF list = << >> THEN << >>
  ELSE LET top == CHOOSE v \in {TotalOf(list[p]) : p \in 1..Len(list)} :
                    \A p \in 1..Len(list) : RatGE(v, TotalOf(list[p]))
       IN SelectSeq(list, LAMBDA en : TotalOf(en) = top)
            \o TiesInOrder(SelectSeq(list, LAMBDA en : TotalOf(en) # top))

Count(list, Test(_)) == Cardinality({p \in 1..Len(list) : Test(list[p])})

\* ----------------------------------------------------------------- C1
\* C1 as stated: the returned list is sorted non-increasing by total_score,
\* has at most top_k entries, and holds only entries with total_score > 0,
\* for every top_k.
C1_Original ==
  Returned =>
    /\ \A p \in 1..(Len(last.result) - 1) :
         RatGE(TotalOf(last.result[p]), TotalOf(last.result[p + 1]))
    /\ Len(last.result) <= LastTopK
    /\ \A p \in 1..Len(last.result) : RatGT(TotalOf(last.result[p]), Rat(0, 1))

\* C1 amended: the returned list is sorted non-increasing by total_score and
\* holds only entries with total_score > 0, for every top_k; it has at most
\* top_k entries whenever top_k >= 0.
C1_RankingProperty ==
  Returned =>
    /\ \A p \in 1..(Len(last.result) - 1) :
         RatGE(TotalOf(last.result[p]), TotalOf(last.result[p + 1]))
    /\ LastTopK >= 0 => Len(last.result) <= LastTopK
    /\ \A p \in 1..Len(last.result) : RatGT(TotalOf(last.result[p]), Rat(0, 1))

\* A call that cut a longer candidate list down to top_k = 2 entries of
\* different scores.
C1_Witness ==
  /\ Returned
  /\ LastTopK = 2
  /\ Len(last.result) = 2
  /\ Len(last.all_courses) > 2
  /\ RatGT(TotalOf(last.result[1]), TotalOf(last.result[2]))

\* ----------------------------------------------------------------- C4
\* C4: when the taxonomy returns an empty missing-capability list, the call
\* returns an empty list and requests nothing from the content source.
C4_EmptyGap ==
  (last.called /\ ~last.hit /\ ~LastMissing.raises /\ LastMissing.skills = << >>) =>
    /\ ~last.raised
    /\ last.result = << >>
    /\ last.fetched = {}
    /\ cache.courses = EmptyMap

\* A call for an empty gap while the content source has items to offer.
C4_Witness ==
  /\ last.called
  /\ ~LastMissing.raises
  /\ LastMissing.skills = << >>
  /\ \A label \in SkillLabels : Usable(source[label]) /\ source[label].elements # << >>
  /\ last.result = << >>

\* ----------------------------------------------------------------- C5
\* C5: a failed or empty fetch for one capability raises nothing and removes
\* only that capability's items: the candidate list holds exactly the
\* positive-scored items of the fetches that did return items, and the call
\* raises exactly when the taxonomy lookup does.
PositiveItems(skills, resp) ==
  IF Usable(resp)
  THEN Count(resp.elements, LAMBDA c : RatGT(WeightedSum(c, skills), Rat(0, 1)))
  ELSE 0

RECURSIVE PositiveItemsFrom(_, _, _)
PositiveItemsFrom(skills, src, i) ==
  IF i > Len(skills) THEN 0
  ELSE PositiveItems(skills, src[skills[i].skill_label])
         + PositiveItemsFrom(skills, src, i + 1)

C5_PartialResults ==
  (last.called /\ ~last.hit) =>
    /\ last.raised <=> LastMissing.raises
    /\ ~last.raised =>
         /\ Len(last.all_courses) = PositiveItemsFrom(LastMissing.skills, source, 1)
         /\ \A i \in 1..Len(LastMissing.skills) :
              LET resp == source[LastMissing.skills[i].skill_label] IN
              Usable(resp) =>
                \A j \in 1..Len(resp.elements) :
                  RatGT(WeightedSum(resp.elements[j], LastMissing.skills), Rat(0, 1)) =>
                    \E p \in 1..Len(last.all_courses) :
                      /\ last.all_courses[p].course = resp.elements[j]
                      /\ last.all_courses[p].target_skill_level
                           = LastMissing.skills[i].occupation_skill_level
         /\ LastTopK >= 0 => Len(last.result) = Min(LastTopK, Len(last.all_courses))

\* The fetch for the first capability failed, the one for the second returned
\* an item, and that item is returned.
C5_Witness ==
  /\ Returned
  /\ Len(LastMissing.skills) = 2
  /\ source[LastMissing.skills[1].skill_label].is_none
  /\ Usable(source[LastMissing.skills[2].skill_label])
  /\ last.result # << >>

\* ----------------------------------------------------------------- C6
\* C6: a capability whose combined score 0.7*name + 0.3*desc for an item is
\* at most 0.3 is not in that item's matched_skills trace, the trace holds one
\* entry per capability above 0.3, and an item that no capability lifts above
\* 0.3 has total_score 0 and is neither a candidate nor returned.
C6_Threshold ==
  (last.called /\ ~last.hit /\ ~last.raised) =>
    \A n \in 1..Len(last.scored) :
      LET item == last.scored[n].course
          trace == last.scored[n].match_score.matched_skills
          skills == LastMissing.skills
      IN /\ \A i \in 1..Len(skills) :
              ~Exceeds(skills[i], item) =>
                 \A m \in 1..Len(trace) : trace[m].skill # Lower(skills[i].skill_label)
         /\ \A m \in 1..Len(trace) : RatGT(trace[m].score, Rat(3, 10))
         /\ Len(trace) = Cardinality({i \in 1..Len(skills) : Exceeds(skills[i], item)})
         /\ (\A i \in 1..Len(skills) : ~Exceeds(skills[i], item)) =>
              /\ TotalOf(last.scored[n]) = Rat(0, 1)
              /\ \A p \in 1..Len(last.all_courses) : last.all_courses[p] # last.scored[n]
              /\ \A p \in 1..Len(last.result) : last.result[p] # last.scored[n]

\* An item whose combined score for the only missing capability is exactly
\* 0.3 (the description equals the label, the name shares nothing with it) was
\* scored and left out.
C6_Witness ==
  /\ last.called /\ ~last.raised
  /\ Len(LastMissing.skills) = 1
  /\ \E n \in 1..Len(last.scored) :
       /\ Combined(LastMissing.skills[1], last.scored[n].course) = Rat(3, 10)
       /\ last.scored[n].match_score.matched_skills = << >>
  /\ last.all_courses = << >>

\* ----------------------------------------------------------------- C7
\* C7: total_score is the sum, over the capabilities whose combined score
\* exceeds 0.3, of combined * weight, weight 2 for 'essential' and 1 otherwise;
\* an item scored against one essential and one other capability of the same
\* label gets three times the combined score.
C7_Weighting ==
  (last.called /\ ~last.hit /\ ~last.raised) =>
    \A n \in 1..Len(last.scored) :
      LET item == last.scored[n].course
          skills == LastMissing.skills
      IN /\ TotalOf(last.scored[n]) = WeightedSum(item, skills)
         /\ ( /\ Len(skills) = 2
              /\ skills[1].skill_label = skills[2].skill_label
              /\ skills[1].occupation_skill_level = "essential"
              /\ skills[2].occupation_skill_level # "essential"
              /\ Exceeds(skills[1], item) )
            => TotalOf(last.scored[n])
                 = RatAdd(RatMul(Combined(skills[1], item), Rat(2, 1)),
                          Combined(skills[2], item))

\* An item matched by an essential and an optional capability of the same
\* label: the trace has both, with the same score.
C7_Witness ==
  /\ last.called /\ ~last.raised
  /\ \E n \in 1..Len(last.scored) :
       LET trace == last.scored[n].match_score.matched_skills IN
       /\ Len(trace) = 2
       /\ trace[1].level = "essential"
       /\ trace[2].level = "optional"
       /\ trace[1].score = trace[2].score
       /\ TotalOf(last.scored[n]) = RatMul(trace[1].score, Rat(3, 1))

\* ----------------------------------------------------------------- C8
\* C8: the returned list is the candidates in first-seen order (by missing
\* capability, then in the content source's order), ordered by descending
\* total_score with equal scores left in first-seen order, and cut to top_k
\* after that ordering.
C8_StableTies ==
  (last.called /\ ~last.hit /\ ~last.raised) =>
    /\ last.all_courses = FirstSeen
    /\ last.result = SliceTo(TiesInOrder(last.all_courses), LastTopK)

\* Three candidates of one score, the first two differing from the third in
\* target_skill_level; top_k = 2 keeps the first two.
C8_Witness ==
  /\ Returned
  /\ LastTopK = 2
  /\ Len(last.all_courses) >= 3
  /\ TotalOf(last.all_courses[1]) = TotalOf(last.all_courses[3])
  /\ TotalOf(last.all_courses[1]) = TotalOf(last.all_courses[2])
  /\ last.all_courses[3] # last.all_courses[1]
  /\ last.all_courses[3] # last.all_courses[2]
  /\ last.result = SubSeq(last.all_courses, 1, 2)

\* ----------------------------------------------------------------- C9
\* C9: every fetched item is scored against the whole missing-capability list
\* and nothing is deduplicated: an item with a positive score has one candidate
\* entry per occurrence in the fetch of each missing capability, all with the
\* same total_score, each with the target_skill_level of its capability.
Occurrences(skills, src, course, level) ==
  LET hits == { <<i, j>> \in (1..Len(skills)) \X (1..MaxCourses) :
                  /\ skills[i].occupation_skill_level = level
                  /\ Usable(src[skills[i].skill_label])
                  /\ j <= Len(src[skills[i].skill_label].elements)
                  /\ src[skills[i].skill_label].elements[j] = course }
  IN Cardinality(hits)

C9_NoDeduplication ==
  (last.called /\ ~last.hit /\ ~last.raised) =>
    /\ \A n \in 1..Len(last.scored) :
         TotalOf(last.scored[n]) = WeightedSum(last.scored[n].course, LastMissing.skills)
    /\ \A course \in CoursePool : \A level \in {"essential", "optional"} :
         Count(last.all_courses,
               LAMBDA en : en.course = course /\ en.target_skill_level = level)
           = IF RatGT(WeightedSum(course, LastMissing.skills), Rat(0, 1))
             THEN Occurrences(LastMissing.skills, source, course, level)
             ELSE 0

\* The same item came back from the fetches of two capabilities of different
\* level and is returned twice.
C9_Witness ==
  /\ Returned
  /\ Len(last.result) >= 2
  /\ last.result[1].course = last.result[2].course
  /\ last.result[1].target_skill_level # last.result[2].target_skill_level
  /\ TotalOf(last.result[1]) = TotalOf(last.result[2])
  /\ LastMissing.skills[1].skill_label # LastMissing.skills[2].skill_label

\* ----------------------------------------------------------------- C2
LabelsOf(skills) == {skills[i].skill_label : i \in 1..Len(skills)}

\* A call made while an earlier return for the same arguments is younger than
\* the ttl and no clear happened since: it returns the same value and requests
\* nothing from the content source.
ServedFromCache ==
  (last.called /\ last.prior_valid) =>
    /\ last.hit
    /\ ~last.raised
    /\ last.result = last.prior_value
    /\ last.fetched = {}

\* C2 as stated: a second call within the ttl and without a clear in between
\* returns the same result without a content-source fetch, and the first call
\* after a clear recomputes and fetches from the content source again (read
\* for a gap that is not empty).
C2_Original ==
  /\ ServedFromCache
  /\ ( /\ last.called
       /\ last.after_invalidation
       /\ ~LastMissing.raises
       /\ LastMissing.skills # << >> )
     => (~last.hit /\ last.fetched # {})

\* C2 amended: the first half as stated; the first call after a clear runs the
\* body again, and every label of its missing-capability list has been
\* requested from the content source after that clear, by this call or by
\* another call since the clear.
C2_CacheCorrectness ==
  /\ ServedFromCache
  /\ (last.called /\ last.after_invalidation) =>
       /\ ~last.hit
       /\ last.raised <=> LastMissing.raises
       /\ ~last.raised => LabelsOf(LastMissing.skills) \subseteq last.fetched_since_clear

\* A result that was computed, dropped by a clear and computed again with a
\* fetch is served from the cache at a later time, after the content source
\* changed its answer.
C2_Witness ==
  /\ last.called /\ last.hit /\ last.prior_valid
  /\ last.at > last.prior_at
  /\ last.key \in history.recomputed
  /\ last.result # << >>
  /\ last.result # recommendations_body(EmptyMap, now, LastMissing, source, LastTopK).result

\* ----------------------------------------------------------------- C3
\* C3: after every write that changes kg.employees the caches are cleared
\* before get_employee_list, get_missing_skills_cached or
\* get_course_recommendations_cached is called again, also when the write
\* raises after kg.employees was changed.
C3_InvalidationBeforeRead == ~audit.stale_read

\* ---------------------------------------------------------------- C10
\* C10: whenever the profile tab looks up st.session_state.selected_employee,
\* the value is None or the id of a row of kg.employees, so the lookup never
\* comes back empty.
C10_SelectionIsPresent == audit.profile_lookup # "empty"

====
